---------------------------- MODULE Spec2Model ----------------------------
(***************************************************************************)
(* Space Weather Visualizer (src/app.py): a Streamlit script that is re-run *)
(* on every widget interaction.  The state is the four sidebar inputs, the  *)
(* st.cache_data store of fetch_space_weather, the HTTP request in flight   *)
(* and what the last script run put on the page.                            *)
(*                                                                          *)
(* Text is modelled by TLA+ strings (TLC evaluates Len, \o and SubSeq on    *)
(* them); JSON values are tagged records; a DataFrame is a column list      *)
(* plus rows aligned with it.  pandas is modelled as of version >= 1.3      *)
(* (json_normalize maps a non-dict element to an empty row).                *)
(***************************************************************************)
EXTENDS Integers, Sequences, FiniteSets, TLC

VARIABLES
    api_key,        \* sidebar text input                          (line 70)
    api_endpoint,   \* event code of the selected display name     (line 91)
    start_date,     \* sidebar date input                          (line 98)
    end_date,       \* sidebar date input                          (line 99)
    fetch_button,   \* TRUE in the script run a click triggers     (line 106)
    cache,          \* st.cache_data store of fetch_space_weather  (line 132)
    pc,             \* "idle", or "fetching" while requests.get is in flight
    calls,          \* calls of fetch_space_weather by the current script run
    request,        \* the GET of the current run: None or Some([url, params])
    gets,           \* number of GETs issued by the current script run
    response,       \* the answer to that GET: None or Some([status, json, text])
                    \* (json is NotJson when the body does not decode)
    sidebar_error,  \* the date-range error of the sidebar         (line 103)
    msgs,           \* elements the run wrote to the main area, in order
    df,             \* None, or Some(DataFrame) once json_normalize ran
    df_grouped,     \* None, or Some(series) once a groupby ran
    chart,          \* "None", or the kind st.plotly_chart rendered
    exception       \* "None", or the exception that ended the script run:
                    \* ConnectionError or Timeout (line 155), JSONDecodeError
                    \* (line 158), NameError (line 238), KeyError (line 247)

vars == <<api_key, api_endpoint, start_date, end_date, fetch_button, cache, pc,
          calls, request, gets, response, sidebar_error, msgs, df, df_grouped,
          chart, exception>>

None == <<>>
Some(x) == <<x>>

-----------------------------------------------------------------------------
(* Bounds of the model.                                                     *)

\* entries st.cache_data may hold at once (the code sets no max_entries)
MaxCache == 1
\* records in one upstream response body
MaxRecords == 2

-----------------------------------------------------------------------------
(* Text helpers: str.lower, the `in` substring test, number formatting.     *)

UpperCase == "ABCDEFGHIJKLMNOPQRSTUVWXYZ"
LowerCase == "abcdefghijklmnopqrstuvwxyz"
Digits == "0123456789"

CharAt(s, i) == SubSeq(s, i, i)

LowerChar(c) ==
    IF \E i \in 1..Len(UpperCase) : CharAt(UpperCase, i) = c
    THEN CharAt(LowerCase, CHOOSE i \in 1..Len(UpperCase) : CharAt(UpperCase, i) = c)
    ELSE c

RECURSIVE Lower(_)
Lower(s) == IF Len(s) = 0 THEN ""
            ELSE LowerChar(CharAt(s, 1)) \o Lower(SubSeq(s, 2, Len(s)))

Contains(sub, s) ==
    \E i \in 0..(Len(s) - Len(sub)) : SubSeq(s, i + 1, i + Len(sub)) = sub

IsDigit(c) == \E i \in 1..Len(Digits) : CharAt(Digits, i) = c
DigitVal(c) == (CHOOSE i \in 1..Len(Digits) : CharAt(Digits, i) = c) - 1
DigitStr(n) == CharAt(Digits, n + 1)

RECURSIVE ToStr(_)
ToStr(n) == IF n < 10 THEN DigitStr(n) ELSE ToStr(n \div 10) \o DigitStr(n % 10)

Pad2(n) == DigitStr((n \div 10) % 10) \o DigitStr(n % 10)
Pad4(n) == Pad2(n \div 100) \o Pad2(n % 100)

AllDigits(s) == \A i \in 1..Len(s) : IsDigit(CharAt(s, i))

RECURSIVE ToInt(_)
ToInt(s) == IF Len(s) = 0 THEN 0
            ELSE 10 * ToInt(SubSeq(s, 1, Len(s) - 1)) + DigitVal(CharAt(s, Len(s)))

-----------------------------------------------------------------------------
(* Calendar dates (datetime.date) and timestamps.                           *)

Date(y, m, d) == [year |-> y, month |-> m, day |-> d]

DateLess(a, b) ==
    \/ a.year < b.year
    \/ a.year = b.year /\ a.month < b.month
    \/ a.year = b.year /\ a.month = b.month /\ a.day < b.day

DateGreater(a, b) == DateLess(b, a)

\* date.strftime("%Y-%m-%d")
strftime(d) == Pad4(d.year) \o "-" \o Pad2(d.month) \o "-" \o Pad2(d.day)

IsLeap(y) == (y % 4 = 0 /\ y % 100 # 0) \/ y % 400 = 0

DaysInMonth(y, m) ==
    IF m = 2 THEN (IF IsLeap(y) THEN 29 ELSE 28)
    ELSE IF m \in {4, 6, 9, 11} THEN 30 ELSE 31

\* the upstream timestamp text of DONKI, "YYYY-MM-DDTHH:MMZ"
IsoTime(d, hour) == strftime(d) \o "T" \o Pad2(hour) \o ":00Z"

\* whether pd.to_datetime reads the text as a timestamp (the DONKI form with
\* fields in range); any other text, and a NaN cell, is coerced to NaT
ParsesAsTime(s) ==
    /\ Len(s) = 17
    /\ AllDigits(SubSeq(s, 1, 4)) /\ CharAt(s, 5) = "-"
    /\ AllDigits(SubSeq(s, 6, 7)) /\ CharAt(s, 8) = "-"
    /\ AllDigits(SubSeq(s, 9, 10)) /\ CharAt(s, 11) = "T"
    /\ AllDigits(SubSeq(s, 12, 13)) /\ CharAt(s, 14) = ":"
    /\ AllDigits(SubSeq(s, 15, 16)) /\ CharAt(s, 17) = "Z"
    /\ ToInt(SubSeq(s, 6, 7)) \in 1..12
    /\ ToInt(SubSeq(s, 9, 10)) \in 1..DaysInMonth(ToInt(SubSeq(s, 1, 4)), ToInt(SubSeq(s, 6, 7)))
    /\ ToInt(SubSeq(s, 12, 13)) \in 0..23
    /\ ToInt(SubSeq(s, 15, 16)) \in 0..59

-----------------------------------------------------------------------------
(* JSON values.                                                             *)

Str(s) == [t |-> "str", s |-> s]
Num(n) == [t |-> "num", n |-> n]
Obj(kv) == [t |-> "obj", kv |-> kv]         \* kv: sequence of [k, v], key order kept
Arr(items) == [t |-> "list", items |-> items]
NaN == [t |-> "nan"]
KV(k, v) == [k |-> k, v |-> v]

Date_(d) == [t |-> "date", d |-> d]        \* a datetime.date cell
NaT == [t |-> "nat"]

\* pd.to_datetime(column, errors = 'coerce').dt.date, for one cell
to_date(cell) ==
    IF cell.t = "str" /\ ParsesAsTime(cell.s)
    THEN Date_(Date(ToInt(SubSeq(cell.s, 1, 4)), ToInt(SubSeq(cell.s, 6, 7)),
                    ToInt(SubSeq(cell.s, 9, 10))))
    ELSE NaT

-----------------------------------------------------------------------------
(* pd.json_normalize and the DataFrame it builds.                           *)

RECURSIVE ConcatAll(_)
ConcatAll(ss) == IF ss = <<>> THEN <<>> ELSE Head(ss) \o ConcatAll(Tail(ss))

IsObj(e) == e.v.t = "obj"
NotObj(e) == e.v.t # "obj"

\* pandas _normalise_json: nested objects become dotted-path keys
RECURSIVE NormaliseJson(_, _)
NormaliseJson(v, key_string) ==
    IF v.t = "obj"
    THEN ConcatAll([i \in 1..Len(v.kv) |->
            NormaliseJson(v.kv[i].v,
                          IF key_string = "" THEN v.kv[i].k
                          ELSE key_string \o "." \o v.kv[i].k)])
    ELSE <<KV(key_string, v)>>

\* pandas _normalise_json_ordered: the top-level scalars first, then the
\* flattened nested objects; an element that is no object gives an empty row
NormaliseRow(v) ==
    IF v.t = "obj"
    THEN SelectSeq(v.kv, NotObj) \o NormaliseJson(Obj(SelectSeq(v.kv, IsObj)), "")
    ELSE <<>>

HasKey(kv, k) == \E i \in 1..Len(kv) : kv[i].k = k
Get(kv, k) == IF HasKey(kv, k) THEN kv[CHOOSE i \in 1..Len(kv) : kv[i].k = k].v ELSE NaN

InSeq(x, s) == \E i \in 1..Len(s) : s[i] = x
IndexOf(x, s) == CHOOSE i \in 1..Len(s) : s[i] = x

\* columns in order of first appearance over the rows
RECURSIVE AddKeys(_, _)
AddKeys(cols, kv) ==
    IF kv = <<>> THEN cols
    ELSE AddKeys(IF InSeq(Head(kv).k, cols) THEN cols ELSE Append(cols, Head(kv).k),
                 Tail(kv))

RECURSIVE ColumnsOf(_, _)
ColumnsOf(cols, dicts) ==
    IF dicts = <<>> THEN cols ELSE ColumnsOf(AddKeys(cols, Head(dicts)), Tail(dicts))

DataFrame(dicts) ==
    LET cols == ColumnsOf(<<>>, dicts)
    IN  [columns |-> cols,
         rows |-> [i \in 1..Len(dicts) |-> [j \in 1..Len(cols) |-> Get(dicts[i], cols[j])]]]

json_normalize(items) == DataFrame([i \in 1..Len(items) |-> NormaliseRow(items[i])])

Column(frame, col) ==
    [i \in 1..Len(frame.rows) |-> frame.rows[i][IndexOf(col, frame.columns)]]

\* frame[col] = values: replaces the column, or appends a new one
SetColumn(frame, col, values) ==
    IF InSeq(col, frame.columns)
    THEN [frame EXCEPT !.rows = [i \in 1..Len(frame.rows) |->
              [frame.rows[i] EXCEPT ![IndexOf(col, frame.columns)] = values[i]]]]
    ELSE [columns |-> Append(frame.columns, col),
          rows |-> [i \in 1..Len(frame.rows) |-> Append(frame.rows[i], values[i])]]

-----------------------------------------------------------------------------
(* groupby('date'): the groups are the distinct non-null dates, ascending.  *)

GroupKeys(frame) ==
    {c.d : c \in {x \in {Column(frame, "date")[i] : i \in 1..Len(frame.rows)} : x.t = "date"}}

\* the groups taken latest first (sort descending)
MinDate_Latest(S) == CHOOSE a \in S : \A b \in S : a = b \/ DateLess(b, a)

MinDate(S) == CHOOSE a \in S : \A b \in S : a = b \/ DateLess(a, b)

RECURSIVE SortDates(_)
SortDates(S) == IF S = {} THEN <<>>
                ELSE <<MinDate(S)>> \o SortDates(S \ {MinDate(S)})

RowsOn(frame, d) == {i \in 1..Len(frame.rows) : Column(frame, "date")[i] = Date_(d)}

\* frame.groupby('date').size().reset_index(name = 'count')
groupby_size(frame) ==
    LET keys == SortDates(GroupKeys(frame))
    IN  [i \in 1..Len(keys) |-> [date |-> keys[i],
                                 count |-> Cardinality(RowsOn(frame, keys[i]))]]

RECURSIVE Gcd(_, _)
Gcd(a, b) == IF b = 0 THEN a ELSE Gcd(b, a % b)

RECURSIVE SumOver(_, _)
SumOver(f, S) == IF S = {} THEN 0
                 ELSE LET i == CHOOSE j \in S : TRUE IN f[i] + SumOver(f, S \ {i})

\* the mean of a group as an exact fraction in lowest terms; NaN for a group
\* without any number
Mean(frame, col, rowset) ==
    LET nums == {i \in rowset : Column(frame, col)[i].t = "num"}
        total == SumOver([i \in nums |-> Column(frame, col)[i].n], nums)
        n == Cardinality(nums)
        g == Gcd(total, n)
    IN  IF n = 0 THEN NaN
        ELSE IF total = 0 THEN [t |-> "mean", num |-> 0, den |-> 1]
        ELSE [t |-> "mean", num |-> total \div g, den |-> n \div g]

\* frame.groupby('date').agg({'kpIndex': 'mean'}).reset_index()
groupby_mean(frame) ==
    LET keys == SortDates(GroupKeys(frame))
    IN  [i \in 1..Len(keys) |-> [date |-> keys[i],
                                 kpIndex |-> Mean(frame, "kpIndex", RowsOn(frame, keys[i]))]]

\* only the first item of each list kept
ExplodeCell_First(c) == IF c.t = "list" /\ c.items # <<>> THEN <<c.items[1]>> ELSE <<NaN>>

\* frame.explode(col): one row per list item; an empty list or a scalar
\* keeps one row (NaN for the empty list).  Only the exploded column is used.
ExplodeCell(c) == IF c.t = "list" THEN (IF c.items = <<>> THEN <<NaN>> ELSE c.items)
                  ELSE <<c>>

explode(frame, col) ==
    ConcatAll([i \in 1..Len(frame.rows) |-> ExplodeCell(Column(frame, col)[i])])

-----------------------------------------------------------------------------
(* The event tables of the script.                                          *)

\* event_types (lines 73-83), in selectbox order
EventCodes == <<"CME", "GST", "FLR", "SEP", "IPS", "RBE", "MPC", "HSS", "notifications">>

event_types ==
    [e \in {EventCodes[i] : i \in 1..Len(EventCodes)} |->
        CASE e = "CME" -> "CME (Coronal Mass Ejection)"
          [] e = "GST" -> "GST (Geomagnetic Storm)"
          [] e = "FLR" -> "FLR (Solar Flare)"
          [] e = "SEP" -> "SEP (Solar Energetic Particle)"
          [] e = "IPS" -> "IPS (Interplanetary Shock)"
          [] e = "RBE" -> "RBE (Radiation Belt Enhancement)"
          [] e = "MPC" -> "MPC (Magnetopause Crossing)"
          [] e = "HSS" -> "HSS (High Speed Stream)"
          [] e = "notifications" -> "Notifications"]

\* event_descriptions (lines 8-18)
event_descriptions ==
    [e \in DOMAIN event_types |->
        CASE e = "CME" -> "Coronal Mass Ejection (CME): A massive burst of solar wind and magnetic fields rising above the solar corona."
          [] e = "GST" -> "Geomagnetic Storm (GST): Disturbances in Earth's magnetosphere caused by solar wind shocks."
          [] e = "FLR" -> "Solar Flare (FLR): A sudden flash of increased brightness on the Sun, usually observed near its surface."
          [] e = "SEP" -> "Solar Energetic Particle (SEP): High-energy particles emitted by the Sun, often associated with solar flares and CMEs."
          [] e = "IPS" -> "Interplanetary Shock (IPS): Shock waves traveling through space, often caused by CMEs or solar wind variations."
          [] e = "RBE" -> "Radiation Belt Enhancement (RBE): An increase in the density of charged particles in Earth's radiation belts."
          [] e = "MPC" -> "Magnetopause Crossing (MPC): When solar wind plasma crosses Earth's magnetopause, the boundary of the magnetosphere."
          [] e = "HSS" -> "High Speed Stream (HSS): Streams of fast-moving solar wind emanating from coronal holes on the Sun."
          [] e = "notifications" -> "Notifications: General alerts and updates related to various space weather events."]

date_field_mapping ==
    [e \in DOMAIN event_types |->
        CASE e \in {"CME", "GST"} -> "startTime"
          [] e = "FLR" -> "beginTime"
          [] e = "notifications" -> "messageIssueTime"
          [] OTHER -> "eventTime"]

y_label_mapping ==
    [e \in DOMAIN event_types |->
        CASE e = "CME" -> "Number of CMEs"
          [] e = "GST" -> "Average Kp Index"
          [] e = "FLR" -> "Number of Solar Flares"
          [] e = "SEP" -> "Number of Solar Energetic Particles"
          [] e = "IPS" -> "Number of Interplanetary Shocks"
          [] e = "RBE" -> "Number of Radiation Belt Enhancements"
          [] e = "MPC" -> "Number of Magnetopause Crossings"
          [] e = "HSS" -> "Number of High Speed Streams"
          [] e = "notifications" -> "Number of Notifications"]

-----------------------------------------------------------------------------
(* fetch_space_weather up to requests.get: the URL and the query.           *)

Param(k, v) == [k |-> k, v |-> v]

\* `elif event == "notifications"` turned into a plain `else`
BuildParams_TypeForAll(event, start, end, key) ==
    <<Param("startDate", strftime(start)), Param("endDate", strftime(end)),
      Param("api_key", key)>>
    \o (IF event = "CME"
        THEN <<Param("mostAccurateOnly", "true"), Param("completeEntryOnly", "true"),
               Param("speed", ToStr(500)), Param("halfAngle", ToStr(30)),
               Param("catalog", "ALL")>>
        ELSE <<Param("type", "all")>>)

\* the params dict in insertion order; requests sends str(value)
BuildParams(event, start, end, key) ==
    <<Param("startDate", strftime(start)), Param("endDate", strftime(end)),
      Param("api_key", key)>>
    \o (IF event = "CME"
        THEN <<Param("mostAccurateOnly", "true"), Param("completeEntryOnly", "true"),
               Param("speed", ToStr(500)), Param("halfAngle", ToStr(30)),
               Param("catalog", "ALL")>>
        ELSE IF event = "notifications" THEN <<Param("type", "all")>>
        ELSE <<>>)

BuildRequest(event, start, end, key) ==
    [url |-> "https://api.nasa.gov/DONKI/" \o event,
     params |-> BuildParams(event, start, end, key)]

-----------------------------------------------------------------------------
(* The body of `if fetch_button:` after the fetch returned (lines 171-294). *)

Element(kind, text) == [kind |-> kind, text |-> text]

IsDateLike(col) == Contains("date", Lower(col)) \/ Contains("time", Lower(col))

\* lines 211-225: the frame with its 'date' column, and what was reported
ResolveDate(event, frame) ==
    LET field == date_field_mapping[event]
        possible_keys == SelectSeq(frame.columns, IsDateLike)
        parsed(col) == [i \in 1..Len(frame.rows) |-> to_date(Column(frame, col)[i])]
    IN  IF InSeq(field, frame.columns)
        THEN [date_field |-> field, df |-> SetColumn(frame, "date", parsed(field)),
              msgs |-> <<>>]
        ELSE IF possible_keys # <<>>
        THEN [date_field |-> possible_keys[1],
              df |-> SetColumn(frame, "date", parsed(possible_keys[1])),
              msgs |-> <<Element("warning",
                                 "Using '" \o possible_keys[1] \o "' as the date field")>>]
        ELSE [date_field |-> "",
              df |-> SetColumn(frame, "date", [i \in 1..Len(frame.rows) |-> NaT]),
              msgs |-> <<Element("error", "No suitable date field found in the data")>>]

Outcome(m, f, g, c, x) ==
    [msgs |-> m, df |-> f, df_grouped |-> g, chart |-> c, exception |-> x]

Heading(event, infix, start, end) ==
    <<Element("markdown", "### Selected Event Information"),
      Element("write", event_descriptions[event]),
      Element("subheader", event_types[event] \o infix \o " from " \o strftime(start)
                           \o " to " \o strftime(end))>>

Chart(kind, y, title, ylabel) ==
    [kind |-> kind, x |-> "date", y |-> y, title |-> title, ylabel |-> ylabel]

RawData == <<Element("expander", "Show Raw Data")>>

\* lines 228-240: the groupby and the headings run, then building the figure
\* reads the name `label` (line 238), which the script never binds, so the
\* run ends in a NameError before st.plotly_chart and the raw-data expander
CmeBranch(event, start, end, pre, frame) ==
    Outcome(pre \o Heading(event, "", start, end),
            Some(frame), Some(groupby_size(frame)), None, "NameError")

\* lines 242-260
GstBranch(event, start, end, pre, frame) ==
    IF InSeq("allKpIndex", frame.columns)
    THEN LET kp0 == json_normalize(explode(frame, "allKpIndex"))
             kp_df == SetColumn(kp0, "date",
                          [i \in 1..Len(kp0.rows) |-> to_date(Column(kp0, "observedTime")[i])])
             title == "Average Kp Index of " \o event_types[event] \o " Over Time"
         IN  IF ~InSeq("observedTime", kp0.columns) \/ ~InSeq("kpIndex", kp0.columns)
             THEN Outcome(pre, Some(frame), None, None, "KeyError")
             ELSE Outcome(pre \o Heading(event, " Kp Index", start, end)
                              \o <<Element("plotly_chart", title)>> \o RawData,
                          Some(frame), Some(groupby_mean(kp_df)),
                          Some(Chart("Line", "kpIndex", title, y_label_mapping[event])),
                          "None")
    ELSE Outcome(pre \o <<Element("error", "No 'allKpIndex' data available to plot.")>>
                     \o RawData,
                 Some(frame), None, None, "None")

\* lines 262-274 (notifications) and 276-288 (the other events): the same steps
BarBranch(event, start, end, pre, frame) ==
    LET title == "Number of " \o event_types[event] \o " Over Time"
    IN  Outcome(pre \o Heading(event, "", start, end)
                    \o <<Element("plotly_chart", title)>> \o RawData,
                Some(frame), Some(groupby_size(frame)),
                Some(Chart("Bar", "count", title, y_label_mapping[event])),
                "None")

\* `if data:` -- None, [], {}, "" and 0 are falsy
Truthy(data) ==
    /\ data # None
    /\ \/ data[1].t = "list" /\ data[1].items # <<>>
       \/ data[1].t = "obj" /\ data[1].kv # <<>>
       \/ data[1].t = "str" /\ data[1].s # ""
       \/ data[1].t = "num" /\ data[1].n # 0

\* lines 171-294, for the value fetch_space_weather returned
Process(event, start, end, data) ==
    IF ~Truthy(data) THEN Outcome(<<>>, None, None, None, "None")
    ELSE LET pre == <<Element("success", "Data fetched successfully!"),
                      Element("expander", "Show Raw JSON Data for Debugging")>>
         IN  IF data[1].t = "list"
             THEN LET res == ResolveDate(event, json_normalize(data[1].items))
                      shown == pre \o res.msgs
                  IN  IF event = "CME" THEN CmeBranch(event, start, end, shown, res.df)
                      ELSE IF event = "GST" THEN GstBranch(event, start, end, shown, res.df)
                      ELSE BarBranch(event, start, end, shown, res.df)
             ELSE Outcome(pre \o <<Element("write",
                                   "No data available for the selected parameters.")>>,
                          None, None, None, "None")

-----------------------------------------------------------------------------
(* The inputs the model draws from.                                         *)

ApiKeys == {"", "DEMO_KEY"}

\* datetime.utcnow().date() of the session, and the dates the user may pick
Today == Date(2024, 3, 1)

PrevDay(d) ==
    IF d.day > 1 THEN Date(d.year, d.month, d.day - 1)
    ELSE IF d.month > 1 THEN Date(d.year, d.month - 1, DaysInMonth(d.year, d.month - 1))
    ELSE Date(d.year - 1, 12, 31)

RECURSIVE MinusDays(_, _)
MinusDays(d, n) == IF n = 0 THEN d ELSE MinusDays(PrevDay(d), n - 1)

default_end_date == Today
default_start_date == MinusDays(default_end_date, 30)

PickableDates == {default_start_date, default_end_date}

\* days and timestamp texts of the upstream records
Day1 == Date(2024, 1, 31)
Day2 == Date(2024, 2, 1)
Day3 == Date(2024, 2, 15)

Rec(id, field, text) == Obj(<<KV("activityID", Str(id)), KV(field, Str(text))>>)

\* records of an event counted per day: its date field on two days and at two
\* times of one day, a text that is no timestamp, a record without the date
\* field but with two date-like keys, one whose only date-like key is nested,
\* and one without any
CountRecords(event) ==
    {Rec("a", date_field_mapping[event], IsoTime(Day1, 3)),
     Rec("b", date_field_mapping[event], IsoTime(Day1, 21)),
     Rec("c", date_field_mapping[event], IsoTime(Day2, 0)),
     Rec("d", date_field_mapping[event], "2024-02-30T00:00Z"),
     Obj(<<KV("link", Str("u")), KV("updateDate", Str(IsoTime(Day3, 0))),
           KV("submissionTime", Str(IsoTime(Day1, 0)))>>),
     Obj(<<KV("link", Str("u")),
           KV("window", Obj(<<KV("endTime", Str(IsoTime(Day2, 12)))>>))>>),
     Obj(<<KV("link", Str("u"))>>)}

Reading(text, kp) ==
    Obj(<<KV("observedTime", Str(text)), KV("kpIndex", Num(kp)), KV("source", Str("NOAA"))>>)

Storm(text, readings) ==
    Obj(<<KV("gstID", Str("g")), KV("startTime", Str(text)), KV("allKpIndex", Arr(readings))>>)

GstRecords ==
    {Storm(IsoTime(Day3, 0), <<Reading(IsoTime(Day1, 0), 3), Reading(IsoTime(Day1, 6), 5)>>),
     Storm(IsoTime(Day1, 0), <<Reading(IsoTime(Day2, 0), 4)>>),
     Storm(IsoTime(Day2, 0), <<Reading("unknown", 7), Reading(IsoTime(Day1, 12), 6)>>),
     Storm(IsoTime(Day1, 0), <<>>),
     Obj(<<KV("gstID", Str("g")), KV("startTime", Str(IsoTime(Day1, 0)))>>),
     Obj(<<KV("gstID", Str("g")), KV("link", Str("u"))>>)}

Records(event) == IF event = "GST" THEN GstRecords ELSE CountRecords(event)

RECURSIVE SeqsUpTo(_, _)
SeqsUpTo(S, n) ==
    IF n = 0 THEN {<<>>}
    ELSE LET shorter == SeqsUpTo(S, n - 1)
         IN  shorter \cup {Append(q, x) : q \in {r \in shorter : Len(r) = n - 1}, x \in S}

\* five CME records on three days, as 2, 1, 2
FiveOnThreeDays ==
    <<Rec("a", "startTime", IsoTime(Day1, 3)), Rec("c", "startTime", IsoTime(Day2, 0)),
      Rec("e", "startTime", IsoTime(Day3, 8)), Rec("b", "startTime", IsoTime(Day1, 21)),
      Rec("f", "startTime", IsoTime(Day3, 9))>>

\* the JSON arrays a 200 answer may carry for the event
Bodies(event) ==
    {Arr(q) : q \in SeqsUpTo(Records(event), MaxRecords)
                    \cup (IF event = "CME" THEN {FiveOnThreeDays} ELSE {})}

\* the answers of the session specification: an empty array, one array with
\* records and a JSON object that is no array
ErrorObject == Obj(<<KV("error", Str("OVER_RATE_LIMIT"))>>)

SessionBodies(event) ==
    {Arr(<<>>), ErrorObject,
     IF event = "CME" THEN Arr(FiveOnThreeDays)
     ELSE IF event = "GST" THEN Arr(<<Storm(IsoTime(Day3, 0),
                 <<Reading(IsoTime(Day1, 0), 3), Reading(IsoTime(Day1, 6), 5)>>)>>)
     ELSE Arr(<<Rec("a", date_field_mapping[event], IsoTime(Day1, 3)),
                Rec("d", date_field_mapping[event], "2024-02-30T00:00Z")>>)}

\* the answers with a status other than 200
Failures == {[status |-> 403, text |-> "Forbidden"],
             [status |-> 500, text |-> "Internal Server Error"]}

-----------------------------------------------------------------------------
(* The script runs.                                                         *)

CacheKey(event, start, end, key) == <<event, start, end, key>>

Cached(k) == \E c \in cache : c.key = k
Lookup(k) == CHOOSE c \in cache : c.key = k

\* what a script run leaves on the page when the button was not clicked
\* (lines 57-129: only the sidebar, with the date-range error of line 103)
Rerun(start, end) ==
    /\ fetch_button' = FALSE
    /\ sidebar_error' = DateGreater(start, end)
    /\ msgs' = <<>>
    /\ df' = None /\ df_grouped' = None /\ chart' = None
    /\ exception' = "None"
    /\ calls' = 0 /\ request' = None /\ gets' = 0 /\ response' = None

Show(out) ==
    /\ df' = out.df
    /\ df_grouped' = out.df_grouped
    /\ chart' = out.chart
    /\ exception' = out.exception

Init ==
    /\ api_key = "DEMO_KEY"
    /\ api_endpoint = EventCodes[1]
    /\ start_date = default_start_date
    /\ end_date = default_end_date
    /\ fetch_button = FALSE
    /\ cache = {}
    /\ pc = "idle"
    /\ calls = 0 /\ request = None /\ gets = 0 /\ response = None
    /\ sidebar_error = DateGreater(default_start_date, default_end_date)
    /\ msgs = <<>>
    /\ df = None /\ df_grouped = None /\ chart = None
    /\ exception = "None"

\* the user edits the API key (line 70)
SetApiKey ==
    /\ pc = "idle"
    /\ \E k \in ApiKeys : api_key' = k
    /\ Rerun(start_date, end_date)
    /\ UNCHANGED <<api_endpoint, start_date, end_date, cache, pc>>

\* the user selects an event type (lines 85-91)
SelectEvent ==
    /\ pc = "idle"
    /\ \E i \in 1..Len(EventCodes) : api_endpoint' = EventCodes[i]
    /\ Rerun(start_date, end_date)
    /\ UNCHANGED <<api_key, start_date, end_date, cache, pc>>

\* the user picks a start date (line 98)
SetStartDate ==
    /\ pc = "idle"
    /\ \E d \in PickableDates : start_date' = d /\ Rerun(d, end_date)
    /\ UNCHANGED <<api_key, api_endpoint, end_date, cache, pc>>

\* the user picks an end date (line 99)
SetEndDate ==
    /\ pc = "idle"
    /\ \E d \in PickableDates : end_date' = d /\ Rerun(start_date, d)
    /\ UNCHANGED <<api_key, api_endpoint, start_date, cache, pc>>

\* the key check left out
KeyMissing_Never(key) == FALSE

\* `not api_key` (line 165)
KeyMissing(key) == key = ""

\* every status below 500 taken for a success
IsSuccess_Below500(status) == status < 500

\* `response.status_code == 200` (line 157)
IsSuccess(status) == status = 200

\* the user clicks Fetch Data: the script runs with fetch_button true
\* (lines 101-106 and 164-169).  A call the cache remembers returns at once
\* and replays what the function showed; any other call issues the GET
\* (while the cache has room for its result: MaxCache bounds the model).
ClickFetch ==
    /\ pc = "idle"
    /\ fetch_button' = TRUE
    /\ sidebar_error' = DateGreater(start_date, end_date)
    /\ response' = None
    /\ IF KeyMissing(api_key)
       THEN /\ msgs' = <<Element("error", "Please enter your NASA API Key to proceed.")>>
            /\ Show(Outcome(<<>>, None, None, None, "None"))
            /\ calls' = 0 /\ request' = None /\ gets' = 0
            /\ UNCHANGED <<pc, cache>>
       ELSE LET k == CacheKey(api_endpoint, start_date, end_date, api_key)
            IN  IF Cached(k)
                THEN LET out == Process(api_endpoint, start_date, end_date, Lookup(k).value)
                     IN  /\ msgs' = Lookup(k).shown \o out.msgs
                         /\ Show(out)
                         /\ calls' = 1 /\ request' = None /\ gets' = 0
                         /\ UNCHANGED <<pc, cache>>
                ELSE /\ Cardinality(cache) < MaxCache
                     /\ pc' = "fetching"
                     /\ request' = Some(BuildRequest(api_endpoint, start_date, end_date, api_key))
                     /\ calls' = 1 /\ gets' = 1
                     /\ msgs' = <<>>
                     /\ Show(Outcome(<<>>, None, None, None, "None"))
                     /\ UNCHANGED cache
    /\ UNCHANGED <<api_key, api_endpoint, start_date, end_date>>

\* requests.get returned status, and body as JSON or text as the body of a
\* failure (lines 155-161); the cache stores the value with
\* what the function showed, and the script goes on (lines 171-294)
Receive(status, body, text) ==
    /\ pc = "fetching"
    /\ response' = Some([status |-> status, json |-> body, text |-> text])
    /\ LET value == IF IsSuccess(status) THEN Some(body) ELSE None
           shown == IF IsSuccess(status) THEN <<>>
                    ELSE <<Element("error", "Error fetching data: " \o ToStr(status)
                                            \o " - " \o text)>>
           out == Process(api_endpoint, start_date, end_date, value)
       IN  /\ cache' = cache \cup
                   {[key |-> CacheKey(api_endpoint, start_date, end_date, api_key),
                     value |-> value, shown |-> shown]}
           /\ msgs' = shown \o out.msgs
           /\ Show(out)
    /\ pc' = "idle"
    /\ UNCHANGED <<api_key, api_endpoint, start_date, end_date, fetch_button,
                   calls, request, gets, sidebar_error>>

\* a body that response.json() cannot decode
NotJson == [t |-> "undecodable"]

\* the texts of such bodies: an empty body and an HTML page
NonJsonTexts == {"", "<html>Service Unavailable</html>"}

\* what requests.get raises when no answer arrives
TransportErrors == {"ConnectionError", "Timeout"}

\* the script run ends in an exception raised inside fetch_space_weather:
\* nothing is returned, so nothing is cached, shown or processed
Raise(name) ==
    /\ exception' = name
    /\ msgs' = <<>>
    /\ df' = None /\ df_grouped' = None /\ chart' = None
    /\ pc' = "idle"
    /\ UNCHANGED <<api_key, api_endpoint, start_date, end_date, fetch_button, cache,
                   calls, request, gets, sidebar_error>>

\* requests.get raises instead of returning an answer (line 155)
GetRaises ==
    /\ pc = "fetching"
    /\ \E name \in TransportErrors : Raise(name)
    /\ UNCHANGED response

\* the upstream API answers 200 with a body that is no JSON: response.json()
\* raises (line 158)
ReceiveNotJson ==
    /\ pc = "fetching"
    /\ \E text \in NonJsonTexts :
          response' = Some([status |-> 200, json |-> NotJson, text |-> text])
    /\ Raise("JSONDecodeError")

\* the upstream API answers 200 with a JSON body
ReceiveOk == \E body \in SessionBodies(api_endpoint) : Receive(200, body, "")

\* the upstream API answers with another status and a textual body
ReceiveFailure == \E f \in Failures : Receive(f.status, Str(f.text), f.text)

\* a cache entry outlives its ttl of 3600 seconds (line 132)
CacheExpire ==
    /\ \E c \in cache : cache' = cache \ {c}
    /\ UNCHANGED <<api_key, api_endpoint, start_date, end_date, fetch_button, pc,
                   calls, request, gets, response, sidebar_error, msgs, df,
                   df_grouped, chart, exception>>

Next ==
    \/ SetApiKey
    \/ SelectEvent
    \/ SetStartDate
    \/ SetEndDate
    \/ ClickFetch
    \/ ReceiveOk
    \/ ReceiveFailure
    \/ ReceiveNotJson
    \/ GetRaises
    \/ CacheExpire

Spec == Init /\ [][Next]_vars

-----------------------------------------------------------------------------
(* One fetch of each event over every upstream array, or ending in an       *)
(* exception of the fetch: the specification of the claims about            *)
(* normalisation and aggregation.                                           *)

\* a GET is in flight for some event, after a click in a fresh session
PipeInit ==
    /\ api_key = "DEMO_KEY"
    /\ api_endpoint \in DOMAIN event_types
    /\ start_date = default_start_date
    /\ end_date = default_end_date
    /\ fetch_button = TRUE
    /\ cache = {}
    /\ pc = "fetching"
    /\ request = Some(BuildRequest(api_endpoint, start_date, end_date, api_key))
    /\ calls = 1 /\ gets = 1 /\ response = None
    /\ sidebar_error = FALSE
    /\ msgs = <<>>
    /\ df = None /\ df_grouped = None /\ chart = None
    /\ exception = "None"

ReceiveArray == \E body \in Bodies(api_endpoint) : Receive(200, body, "")

PipeNext ==
    \/ ReceiveArray
    \/ ReceiveNotJson
    \/ GetRaises

PipeSpec == PipeInit /\ [][PipeNext]_vars

-----------------------------------------------------------------------------
(* Properties.  Spec is the session; PipeSpec is one fetch over every       *)
(* upstream array.                                                          *)

Answered == response # None
AnsweredOk == Answered /\ response[1].status = 200
AnsweredArray == AnsweredOk /\ response[1].json.t = "list" /\ response[1].json.items # <<>>
KeyError_ == Element("error", "Please enter your NASA API Key to proceed.")
NoData == Element("write", "No data available for the selected parameters.")
Shows(e) == \E i \in 1..Len(msgs) : msgs[i] = e
NothingProcessed == df = None /\ df_grouped = None /\ chart = None

\* C1 (as claimed): after a click with start > end no GET was issued, nothing
\* was normalised, aggregated or charted, and only the date-range error shows.
C1_InvalidRangeBlocksFetch ==
    (fetch_button /\ DateGreater(start_date, end_date)) =>
        /\ sidebar_error
        /\ calls = 0 /\ gets = 0 /\ request = None /\ pc = "idle"
        /\ NothingProcessed
        /\ (api_key # "" => msgs = <<>>)

\* C2: after a click with an empty API key fetch_space_weather was not called
\* and no GET was issued, the page shows exactly the error asking for the key,
\* and nothing was normalised, aggregated or charted.
C2_EmptyKeyBlocksFetch ==
    (fetch_button /\ api_key = "") =>
        /\ calls = 0 /\ gets = 0 /\ request = None /\ response = None /\ pc = "idle"
        /\ msgs = <<KeyError_>>
        /\ NothingProcessed /\ exception = "None"

C2_Witness ==
    /\ fetch_button /\ api_key = "" /\ msgs = <<KeyError_>>
    /\ api_endpoint = "GST" /\ DateGreater(start_date, end_date) /\ cache # {}

\* C3: once the API answered with a status other than 200, the run has issued
\* exactly one GET and is over, the page shows exactly one element, an error
\* whose text carries the status code and the response body, and nothing was
\* normalised, aggregated or charted.
C3_FailureShownOnce ==
    (Answered /\ response[1].status # 200) =>
        /\ gets = 1 /\ calls = 1 /\ pc = "idle"
        /\ Len(msgs) = 1
        /\ msgs[1].kind = "error"
        /\ Contains(ToStr(response[1].status), msgs[1].text)
        /\ Contains(response[1].text, msgs[1].text)
        /\ NothingProcessed /\ exception = "None"

C3_Witness ==
    /\ Answered /\ response[1].status = 403
    /\ msgs = <<Element("error", "Error fetching data: 403 - Forbidden")>>
    /\ api_endpoint = "notifications"

\* C6 (as claimed): once the API answered 200 with an empty array, nothing was
\* normalised, aggregated or charted, and the page shows the no-data message
\* and no error.
C6_EmptyArrayShowsNoData ==
    (AnsweredOk /\ response[1].json = Arr(<<>>)) =>
        /\ NothingProcessed
        /\ Shows(NoData)
        /\ \A i \in 1..Len(msgs) : msgs[i].kind # "error"

ParamsSent == {request[1].params[i] : i \in 1..Len(request[1].params)}

\* C7: the query of every GET holds startDate, endDate and the API key; for
\* CME also mostAccurateOnly=true, completeEntryOnly=true, speed=500,
\* halfAngle=30 and catalog=ALL; for notifications also type=all; for the
\* other seven event codes nothing more.
C7_QueryParams ==
    request # None =>
        /\ Len(request[1].params) = Cardinality({q.k : q \in ParamsSent})
        /\ \E s \in ParamsSent : s.k = "startDate" /\ Len(s.v) = 10
                                 /\ ToInt(SubSeq(s.v, 9, 10)) = start_date.day
        /\ \E s \in ParamsSent : s.k = "endDate" /\ Len(s.v) = 10
                                 /\ ToInt(SubSeq(s.v, 9, 10)) = end_date.day
        /\ [k |-> "api_key", v |-> api_key] \in ParamsSent
        /\ {q \in ParamsSent : q.k \notin {"startDate", "endDate", "api_key"}}
             = CASE api_endpoint = "CME" ->
                      {[k |-> "mostAccurateOnly", v |-> "true"],
                       [k |-> "completeEntryOnly", v |-> "true"],
                       [k |-> "speed", v |-> "500"],
                       [k |-> "halfAngle", v |-> "30"],
                       [k |-> "catalog", v |-> "ALL"]}
                 [] api_endpoint = "notifications" -> {[k |-> "type", v |-> "all"]}
                 [] OTHER -> {}

C7_Witness ==
    /\ request # None /\ api_endpoint = "HSS" /\ Cardinality(ParamsSent) = 3
    /\ [k |-> "startDate", v |-> "2024-03-01"] \in ParamsSent
    /\ [k |-> "endDate", v |-> "2024-01-31"] \in ParamsSent

-----------------------------------------------------------------------------
(* Properties of normalisation and aggregation (PipeSpec).                  *)

Series == df_grouped[1]
Items == response[1].json.items

\* the 'date' cell of row i of the frame the run normalised
DateCell(i) == df[1].rows[i][CHOOSE j \in 1..Len(df[1].columns) : df[1].columns[j] = "date"]
DatedRows == {i \in 1..Len(df[1].rows) : DateCell(i).t = "date"}
RowsDated(d) == {i \in DatedRows : DateCell(i).d = d}

\* the sub-readings of the answer, as (record, position) pairs, with the day
\* of each one's own observedTime
HasReadings(rec) ==
    \E i \in 1..Len(rec.kv) : rec.kv[i].k = "allKpIndex" /\ rec.kv[i].v.t = "list"
ReadingsOf(rec) ==
    rec.kv[CHOOSE i \in 1..Len(rec.kv) : rec.kv[i].k = "allKpIndex"].v.items
Positions ==
    UNION {{<<i, j>> : j \in 1..Len(ReadingsOf(Items[i]))} :
              i \in {r \in 1..Len(Items) : HasReadings(Items[r])}}
Field(obj, k) == obj.kv[CHOOSE i \in 1..Len(obj.kv) : obj.kv[i].k = k].v
ObservedDay(p) == to_date(Field(ReadingsOf(Items[p[1]])[p[2]], "observedTime"))
Kp(p) == Field(ReadingsOf(Items[p[1]])[p[2]], "kpIndex").n
ObservedOn(d) == {p \in Positions : ObservedDay(p) = Date_(d)}

RECURSIVE Total(_, _)
Total(f, S) == IF S = {} THEN 0
               ELSE LET x == CHOOSE y \in S : TRUE IN f[x] + Total(f, S \ {x})

\* the points of a counting series are the days of the dated rows, each with
\* the number of rows on that day
CountsPerDay ==
    /\ {Series[k].date : k \in 1..Len(Series)} = {DateCell(i).d : i \in DatedRows}
    /\ \A k \in 1..Len(Series) : Series[k].count = Cardinality(RowsDated(Series[k].date))

StrictlyIncreasing ==
    \A j, k \in 1..Len(Series) : j < k => DateLess(Series[j].date, Series[k].date)

\* C4 (as claimed): a CME fetch that returned records completes, its series
\* holds one point per distinct start date with the number of records on that
\* date, and it is rendered as a Line chart.
C4_CmeLineChart ==
    (api_endpoint = "CME" /\ AnsweredArray) =>
        /\ df_grouped # None
        /\ CountsPerDay /\ StrictlyIncreasing
        /\ exception = "None"
        /\ chart # None
        /\ chart[1].kind = "Line"

\* C5: for GST every sub-reading with a readable observedTime is counted on
\* the day of that observedTime, whatever the startTime of its record: the
\* series exists whenever there is a sub-reading, its days are exactly the
\* days of the observedTimes, and the value of each day is the arithmetic mean
\* of the kpIndex of the sub-readings observed on it.
C5_GstMeanPerObservedDay ==
    (api_endpoint = "GST" /\ AnsweredArray) =>
        /\ Positions # {} => df_grouped # None
        /\ df_grouped # None =>
             /\ \A p \in Positions : ObservedDay(p).t = "date" =>
                    \E k \in 1..Len(Series) : Series[k].date = ObservedDay(p).d
             /\ \A k \in 1..Len(Series) :
                    /\ ObservedOn(Series[k].date) # {}
                    /\ Series[k].kpIndex.t = "mean"
                    /\ Series[k].kpIndex.num * Cardinality(ObservedOn(Series[k].date))
                         = Series[k].kpIndex.den
                             * Total([p \in Positions |-> Kp(p)], ObservedOn(Series[k].date))

\* one storm starting on Day3 with readings 3 and 5 on Day1: the mean of Day1 is 4
C5_Witness ==
    /\ api_endpoint = "GST" /\ AnsweredArray
    /\ Items = <<Storm(IsoTime(Day3, 0),
                       <<Reading(IsoTime(Day1, 0), 3), Reading(IsoTime(Day1, 6), 5)>>)>>
    /\ df_grouped = Some(<<[date |-> Day1, kpIndex |-> [t |-> "mean", num |-> 4, den |-> 1]]>>)

\* C8: every series has strictly increasing dates, so none twice, and a point
\* only for a date that an input row carries: a dated row of the frame, or for
\* GST a sub-reading observed on that date.
C8_SeriesSortedNoGaps ==
    (AnsweredArray /\ df_grouped # None) =>
        /\ StrictlyIncreasing
        /\ \A k \in 1..Len(Series) :
              IF api_endpoint = "GST" THEN ObservedOn(Series[k].date) # {}
              ELSE RowsDated(Series[k].date) # {}

\* two records, the later day first: the series has the earlier day first and
\* no point for the days between
C8_Witness ==
    /\ api_endpoint = "FLR" /\ AnsweredArray /\ df_grouped # None
    /\ Len(Items) = 2 /\ DateCell(1) = Date_(Day2) /\ DateCell(2) = Date_(Day1)
    /\ Series = <<[date |-> Day1, count |-> 1], [date |-> Day2, count |-> 1]>>

\* C9 (as claimed): for a non-GST event whose answer holds a record with a date
\* that does not parse, the run is not aborted, and the counts of the series
\* add up to the number of records with a readable date, at most the number of
\* records.
C9_BadDatesDropped ==
    (api_endpoint # "GST" /\ AnsweredArray /\ DatedRows # 1..Len(df[1].rows)) =>
        /\ exception = "None"
        /\ df_grouped # None
        /\ Total([k \in 1..Len(Series) |-> Series[k].count], 1..Len(Series))
             = Cardinality(DatedRows)
        /\ Cardinality(DatedRows) <= Len(Items)

\* the keys of the flattened records, and the date-like ones among them
Keys == SelectSeq(df[1].columns, LAMBDA c : c # "date")
DateLike(c) == Contains("date", Lower(c)) \/ Contains("time", Lower(c))
FirstDateLike == Keys[CHOOSE i \in 1..Len(Keys) :
                        DateLike(Keys[i]) /\ \A j \in 1..(i - 1) : ~DateLike(Keys[j])]
ValueOf(i, key) == df[1].rows[i][CHOOSE j \in 1..Len(df[1].columns) : df[1].columns[j] = key]
Among(key) == \E i \in 1..Len(Keys) : Keys[i] = key
RawDataShown == \E i \in 1..Len(msgs) : msgs[i] = Element("expander", "Show Raw Data")

\* C10 (as claimed), for the events whose aggregation reads the resolved
\* date: the dates come from the configured field when it is a key, else from
\* the first date-like key; without one every date is invalid, this is
\* reported, and the run still goes on to the chart and the raw data.
C10_DateSource ==
    (api_endpoint # "GST" /\ AnsweredArray) =>
        IF Among(date_field_mapping[api_endpoint])
        THEN \A i \in 1..Len(Items) :
                DateCell(i) = to_date(ValueOf(i, date_field_mapping[api_endpoint]))
        ELSE IF \E i \in 1..Len(Keys) : DateLike(Keys[i])
        THEN \A i \in 1..Len(Items) : DateCell(i) = to_date(ValueOf(i, FirstDateLike))
        ELSE /\ DatedRows = {}
             /\ \E i \in 1..Len(msgs) : msgs[i].kind = "error"
             /\ df_grouped = Some(<<>>)
             /\ exception = "None"
             /\ chart # None
             /\ RawDataShown

=============================================================================
